---- MODULE Spec2Model ----
(***************************************************************************)
(* Model of smsframework/providers/forward/provider.py: the JsonEx RPC     *)
(* helpers (jsonex_api, jsonex_request), ForwardClientProvider and         *)
(* ForwardServerProvider.                                                  *)
(*                                                                         *)
(* Python values are records:                                              *)
(*   instance of a class   [k |-> "inst", cls |-> <class name>, dict |-> f]*)
(*   exception instance    [k |-> "exc",  cls |-> <class name>, dict |-> f]*)
(* where f is the object's attribute dictionary (an exception keeps its    *)
(* message under "args").  A dict literal such as {'message': m} is a      *)
(* function from keys to values.  Strings that the code concatenates or    *)
(* formats (URLs, exception messages) are sequences of tokens, so that     *)
(* `a + b` is a \o b.                                                      *)
(***************************************************************************)
EXTENDS Integers, Sequences, FiniteSets, TLC

\* ------------------------------------------------------------------ bounds
MaxClients == 3
\* providers registered on the server gateway
MaxProviders == 3
\* nested calls the interpreter allows before it raises (its recursion limit)
MaxDepth == 3

\* ------------------------------------------------------------------ state
VARIABLES
    server_url,   \* ForwardClientProvider.server_url
    name,         \* ForwardClientProvider.name (IProvider)
    clients,      \* ForwardServerProvider.clients
    heap,         \* the objects of the process whose call is observed
    call,         \* the plugin or helper call observed: its name and arguments
    result,       \* how that call ended: Return(..), Raise(..) or still running
    trace,        \* urlopen / jsonex_loads / completed events of that call
    gwcalls,      \* calls that call made into the owning gateway
    fcalls,       \* calls a jsonex_api wrapper made to the handler it wraps
    fwd,          \* position of ForwardServerProvider.forward's loop
    gateway,      \* the server gateway: its providers and event subscribers
    firing,       \* position of an event of that gateway among its subscribers
    stack         \* the plugins whose send(message) is on the call stack

vars == << server_url, name, clients, heap, call, result, trace, gwcalls, fcalls, fwd,
           gateway, firing, stack >>

config == << server_url, name, clients >>

host == << gateway, firing, stack >>

\* ------------------------------------------------------------ data domain
None == "<None>"

\* provider.py:17-21, the tuple the `classes` registry is built from
ClassTuple ==
    << "IncomingMessage", "OutgoingMessage", "OutgoingMessageOptions",
       "MessageStatus", "MessageAccepted", "MessageDelivered",
       "MessageExpired", "MessageError" >>

\* as ExceptionTuple, with a status class listed among the exceptions too
ExceptionTuple_shared ==
    << "ProviderError", "ConnectionError", "MessageSendError", "RequestError",
       "UnsupportedError", "ServerError", "AuthError", "LimitsError",
       "CreditError", "MessageError" >>

\* provider.py:23-26, the tuple the `exceptions` registry is built from
ExceptionTuple ==
    << "ProviderError", "ConnectionError", "MessageSendError", "RequestError",
       "UnsupportedError", "ServerError", "AuthError", "LimitsError",
       "CreditError" >>

Range(s) == {s[i] : i \in DOMAIN s}

\* C.__name__ of a class object: the model identifies a class with its
\* qualified identity <<module, name>> and __name__ is the second part.
ClassObj(module, nm) == [module |-> module, name |-> nm]
DataClass(nm) == ClassObj("smsframework.data", nm)
ExcClass(nm) == ClassObj("smsframework.exc", nm)

\* {C.__name__: C for C in (...)}: a later entry of the same name wins
DictByName(objs) ==
    [n \in {objs[i].name : i \in DOMAIN objs} |->
        objs[CHOOSE i \in DOMAIN objs :
                /\ objs[i].name = n
                /\ \A j \in DOMAIN objs : objs[j].name = n => j <= i]]

classes == DictByName([i \in DOMAIN ClassTuple |-> DataClass(ClassTuple[i])])

exceptions == DictByName([i \in DOMAIN ExceptionTuple |-> ExcClass(ExceptionTuple[i])])

\* isinstance(obj, MessageStatus): MessageStatus and its four variants
MessageStatusClasses ==
    {"MessageStatus", "MessageAccepted", "MessageDelivered", "MessageExpired",
     "MessageError"}

\* werkzeug.exceptions.HTTPException subclasses and the code each carries
HTTPExceptionCode == [NotFound |-> 404, BadRequest |-> 400]
HTTPExc(nm) == ClassObj("werkzeug.exceptions", nm)
IsHTTPException(e) ==
    e.k = "exc" /\ e.cls \in {HTTPExc(n) : n \in DOMAIN HTTPExceptionCode}

Inst(cls, d) == [k |-> "inst", cls |-> cls, dict |-> d]
Exc(cls, msg) == [k |-> "exc", cls |-> cls, dict |-> [args |-> msg]]

\* outcome of a call: a normal return or a raised exception
Return(v) == [kind |-> "return", value |-> v]
Raise(e) == [kind |-> "raise", exc |-> e]

\* s contains the token sequence t as a contiguous part
Contains(s, t) ==
    \E i \in 0..(Len(s) - Len(t)) : \A j \in 1..Len(t) : s[i + j] = t[j]

\* ------------------------------------------------------------ JsonEx codec
\* JsonExEncoder.default: an instance or an exception becomes a JSON object
\* carrying its class's public name as type tag beside its field values.
JsonExEncode(o) == [__type__ |-> o.cls.name, data |-> o.dict]

\* provider.py:33-37
jsonex_dumps(data) ==
    [fmt |-> "json", doc |-> [key \in DOMAIN data |-> JsonExEncode(data[key])]]

\* JsonExDecoder's object hook: the tag is looked up in the class registry,
\* then in the exception registry; a tag in neither cannot be decoded.
JsonExKnown(j, cls, excs) == j.__type__ \in (DOMAIN cls) \cup (DOMAIN excs)
JsonExDecode(j, cls, excs) ==
    IF j.__type__ \in DOMAIN cls
    THEN [k |-> "inst", cls |-> cls[j.__type__], dict |-> j.data]
    ELSE [k |-> "exc", cls |-> excs[j.__type__], dict |-> j.data]

DecodeError(tag) == Exc(ClassObj("jsonex", "UnsupportedTypeError"), <<tag>>)
ValueErrorExc == Exc(ClassObj("exceptions", "ValueError"), <<"No JSON object could be decoded">>)

\* provider.py:40-44; the result is Return(<decoded map>) or Raise(<failure>)
jsonex_loads(s) ==
    IF s.fmt # "json" THEN Raise(ValueErrorExc)
    ELSE IF \E key \in DOMAIN s.doc : ~JsonExKnown(s.doc[key], classes, exceptions)
    THEN LET bad == CHOOSE key \in DOMAIN s.doc :
                        ~JsonExKnown(s.doc[key], classes, exceptions)
         IN Raise(DecodeError(s.doc[bad].__type__))
    ELSE Return([key \in DOMAIN s.doc |->
                    JsonExDecode(s.doc[key], classes, exceptions)])

\* ------------------------------------------------------- JSON view wrapper
\* flask.make_response(body, code): a response with flask's default mimetype
make_response(body, code) ==
    [code |-> code, headers |-> ("Content-Type" :> "text/html; charset=utf-8"),
     body |-> body]

SetHeader(response, header, v) ==
    [response EXCEPT !.headers =
        [h \in (DOMAIN response.headers) \cup {header} |->
            IF h = header THEN v ELSE response.headers[h]]]

\* as jsonex_api_result, with the error envelope sent under status 200
jsonex_api_result_ok(outcome) ==
    IF outcome.kind = "return" THEN [code |-> 200, res |-> outcome.value]
    ELSE IF IsHTTPException(outcome.exc)
    THEN [code |-> HTTPExceptionCode[outcome.exc.cls.name],
          res |-> [error |-> outcome.exc]]
    ELSE [code |-> 200, res |-> [error |-> outcome.exc]]

\* as jsonex_api_result, without the HTTPException clause
jsonex_api_result_nohttp(outcome) ==
    IF outcome.kind = "return" THEN [code |-> 200, res |-> outcome.value]
    ELSE [code |-> 500, res |-> [error |-> outcome.exc]]

\* as jsonex_api_result, a plain failure filed under the key of a result
jsonex_api_result_misfiled(outcome) ==
    IF outcome.kind = "return" THEN [code |-> 200, res |-> outcome.value]
    ELSE IF IsHTTPException(outcome.exc)
    THEN [code |-> HTTPExceptionCode[outcome.exc.cls.name],
          res |-> [error |-> outcome.exc]]
    ELSE [code |-> 500, res |-> [message |-> outcome.exc]]

\* provider.py:52-58: the (code, res) pair for the outcome of f(*args, **kwargs)
jsonex_api_result(outcome) ==
    IF outcome.kind = "return" THEN [code |-> 200, res |-> outcome.value]
    ELSE IF IsHTTPException(outcome.exc)
    THEN [code |-> HTTPExceptionCode[outcome.exc.cls.name],
          res |-> [error |-> outcome.exc]]
    ELSE [code |-> 500, res |-> [error |-> outcome.exc]]

\* as jsonex_api_response, without the Content-Type assignment
jsonex_api_response_noheader(cr) == make_response(jsonex_dumps(cr.res), cr.code)

\* provider.py:60-63: the response built from (code, res)
jsonex_api_response(cr) ==
    SetHeader(make_response(jsonex_dumps(cr.res), cr.code),
              "Content-Type", "application/json")

\* ------------------------------------------------- host gateway (external)
SetAttrs(d, upd) ==
    [f \in (DOMAIN d) \cup (DOMAIN upd) |-> IF f \in DOMAIN upd THEN upd[f] ELSE d[f]]

\* Gateway.send(message): a registered provider dispatches the message,
\* assigning its identifier and provider name in place, or raises.  `gw` is
\* what that provider does.
Gateway_send(h, message, gw) ==
    IF gw.kind = "sent"
    THEN [heap |-> [h EXCEPT ![message].dict =
                        SetAttrs(@, [msgid |-> gw.msgid, provider |-> gw.provider])],
          outcome |-> Return(message)]
    ELSE [heap |-> h, outcome |-> Raise(gw.exc)]

\* ----------------------------------------------------- plugin methods that
\* the receiver endpoints call
\* as ForwardServerProvider_send, without clearing message.provider
ForwardServerProvider_send_keep(h, message, gw) ==
    LET g == Gateway_send(h, message, gw)
    IN [heap |-> g.heap, outcome |-> g.outcome,
        gwcalls |-> << [fn |-> "send", arg |-> message, obj |-> h[message]] >>]

\* provider.py:210-217
ForwardServerProvider_send(h, message, gw) ==
    LET h1 == [h EXCEPT ![message].dict = SetAttrs(@, [provider |-> None])]
        g == Gateway_send(h1, message, gw)
    IN [heap |-> g.heap, outcome |-> g.outcome,
        gwcalls |-> << [fn |-> "send", arg |-> message, obj |-> h1[message]] >>]

\* as ForwardClientProvider_receive_message, tagging the message the way
\* IProvider._receive_message does
ForwardClientProvider_receive_message_tag(h, message) ==
    LET h1 == [h EXCEPT ![message].dict = SetAttrs(@, [provider |-> name])]
    IN [heap |-> h1, outcome |-> Return(message),
        gwcalls |-> << [fn |-> "onReceive", arg |-> message, obj |-> h1[message]] >>]

\* provider.py:141-144
ForwardClientProvider_receive_message(h, message) ==
    [heap |-> h, outcome |-> Return(message),
     gwcalls |-> << [fn |-> "onReceive", arg |-> message, obj |-> h[message]] >>]

\* provider.py:146-149
ForwardClientProvider_receive_status(h, status) ==
    [heap |-> h, outcome |-> Return(status),
     gwcalls |-> << [fn |-> "onStatus", arg |-> status, obj |-> h[status]] >>]

\* ------------------------------------------------------ receiver endpoints
\* (a call whose result is used more than once is handed on as the argument
\* of the operator that continues the function)
KeyErrorExc(key) == Exc(ClassObj("exceptions", "KeyError"), <<key>>)

\* the view's answer once the plugin method r has run
receiver_answer(key, r) ==
    IF r.outcome.kind = "raise" THEN r.outcome
    ELSE Return((key :> r.heap[r.outcome.value]))

\* receiver_server's view for POST /im, the body decoded as req: hand the
\* message to the server plugin's send, answer {'message': message}
receiver_server_handle(req, gw) ==
    IF req.kind = "raise" THEN req
    ELSE IF "message" \notin DOMAIN req.value THEN Raise(KeyErrorExc("message"))
    ELSE receiver_answer("message",
            ForwardServerProvider_send(("req" :> req.value["message"]), "req", gw))

receiver_server_im(body, gw) == receiver_server_handle(jsonex_loads(body), gw)

\* the client plugin's receive path for the object posted under `key`
receiver_client_receive(key, h) ==
    IF key = "message"
    THEN ForwardClientProvider_receive_message(h, "req")
    ELSE ForwardClientProvider_receive_status(h, "req")

\* receiver_client's views for POST /im and POST /status, the body decoded as
\* req: hand the object to the client plugin's receive path, echo it back.
\* `hook` is what the client gateway's event subscribers do.
receiver_client_handle(req, key, hook) ==
    IF req.kind = "raise" THEN req
    ELSE IF key \notin DOMAIN req.value THEN Raise(KeyErrorExc(key))
    ELSE IF hook.kind = "raise" THEN Raise(hook.exc)
    ELSE receiver_answer(key, receiver_client_receive(key, ("req" :> req.value[key])))

receiver_client_view(body, key, hook) ==
    receiver_client_handle(jsonex_loads(body), key, hook)

\* f(*args, **kwargs) for the handler f that a wrapper decorates
CallHandler(f, args, body) ==
    CASE f.view = "server_im" -> receiver_server_im(body, f.gw)
      [] f.view \in {"client_im", "client_status"} ->
            receiver_client_view(
                body, IF f.view = "client_im" THEN "message" ELSE "status", f.hook)
      [] f.view = "returns" -> Return([result |-> args[1]])
      [] f.view = "raises" -> Raise(f.exc)

\* provider.py:47-64: wrapper(*args, **kwargs) around handler f; `fcalls`
\* lists the calls of f the wrapper made
jsonex_api(f, args, body) ==
    [response |-> jsonex_api_response(jsonex_api_result(CallHandler(f, args, body))),
     fcalls |-> << [f |-> f, args |-> args] >>]

\* ---------------------------------------------------------------- network
Last(s) == s[Len(s)]

NotFoundPage ==
    [code |-> 404, headers |-> ("Content-Type" :> "text/html"),
     body |-> [fmt |-> "html", doc |-> "Not Found"]]

\* the routes of the receiver blueprint behind a URL
Routes(remote) ==
    IF remote.kind = "server" THEN {"/im"} ELSE {"/im", "/status"}

\* the wrapped view a receiver blueprint serves a route with
RouteView(url, remote) ==
    IF remote.kind = "server" THEN [view |-> "server_im", gw |-> remote.gw]
    ELSE IF Last(url) = "/im" THEN [view |-> "client_im", hook |-> remote.hook]
    ELSE [view |-> "client_status", hook |-> remote.hook]

\* what the endpoint behind `url` answers to the posted body
RemoteResponse(url, body, remote) ==
    IF remote.kind = "raw" THEN remote.response
    ELSE IF Last(url) \notin Routes(remote) THEN NotFoundPage
    ELSE jsonex_api(RouteView(url, remote), << >>, body).response

\* urllib2.urlopen for the response the remote end gave: the response itself,
\* or HTTPError for an error status
urlopen_response(response) ==
    IF response.code >= 200 /\ response.code < 300
    THEN [kind |-> "response", response |-> response]
    ELSE [kind |-> "HTTPError", response |-> response, message |-> ""]

\* urllib2.urlopen(req, body): as above, or URLError when no response can be had
urlopen(url, body, remote) ==
    IF remote.kind = "unreachable"
    THEN [kind |-> "URLError", message |-> remote.message]
    ELSE urlopen_response(RemoteResponse(url, body, remote))

\* ------------------------------------------------------------- RPC helper
ServerError(url, message) ==
    Exc(ExcClass("ServerError"), <<"Server at \"">> \o url \o <<"\" failed: ", message>>)
ConnectionError_nourl(url, message) ==
    Exc(ExcClass("ConnectionError"), <<"Connection failed: ", message>>)
ConnectionError(url, message) ==
    Exc(ExcClass("ConnectionError"),
        <<"Connection to \"">> \o url \o <<"\" failed: ", message>>)

\* as jsonex_request_result, without the test for the "error" key
jsonex_request_result_noerr(res) ==
    IF res.kind = "raise" THEN res ELSE Return(res.value)

\* provider.py:93-97
jsonex_request_result(res) ==
    IF res.kind = "raise" THEN res
    ELSE IF "error" \in DOMAIN res.value THEN Raise(res.value["error"])
    ELSE Return(res.value)

\* as jsonex_request_is_json, testing only that the header is there
jsonex_request_is_json_any(e) == "Content-Type" \in DOMAIN e.response.headers

\* provider.py:86: does the error response e go through jsonex_loads?
jsonex_request_is_json(e) ==
    /\ "Content-Type" \in DOMAIN e.response.headers
    /\ e.response.headers["Content-Type"] = "application/json"

RequestEvent(url) == [ev |-> "urlopen", url |-> url]
LoadsEvent(url) == [ev |-> "jsonex_loads", url |-> url]

\* provider.py:83-97 for what urlopen gave.  `trace` lists the urlopen and
\* jsonex_loads calls made.
jsonex_request_reply(url, reply) ==
    IF reply.kind = "URLError"
    THEN [outcome |-> Raise(ConnectionError(url, reply.message)),
          trace |-> << RequestEvent(url) >>]
    ELSE IF reply.kind = "HTTPError" /\ ~jsonex_request_is_json(reply)
    THEN [outcome |-> Raise(ServerError(url, reply.message)),
          trace |-> << RequestEvent(url) >>]
    ELSE [outcome |-> jsonex_request_result(jsonex_loads(reply.response.body)),
          trace |-> << RequestEvent(url), LoadsEvent(url) >>]

\* provider.py:67-97
jsonex_request(url, data, remote) ==
    jsonex_request_reply(url, urlopen(url, jsonex_dumps(data), remote))

\* ----------------------------------------------------------- input domains
URLs == { <<"http://c1">>, <<"http://c2">> }
ServerURLs == { <<"http://server">>, <<"http://10.0.0.1:5000", "/sms">> }
ProviderNames == { "fwd", "client" }

\* sequences over S of length at most n
SeqUpTo(S, n) == UNION { [1..k -> S] : k \in 0..n }

OutgoingDicts ==
    { [body |-> "hi"],
      [body |-> "hi", provider |-> "fwd", msgid |-> "old", meta |-> "x"] }

ForwardedObjects ==
    { Inst(DataClass("IncomingMessage"), [body |-> "yo", provider |-> "carrier"]),
      Inst(DataClass("IncomingMessage"), [body |-> "yo", provider |-> None]),
      Inst(DataClass("MessageStatus"), [msgid |-> "abc123", provider |-> "carrier"]),
      Inst(DataClass("MessageDelivered"), [msgid |-> "abc123", provider |-> "fwd"]),
      Inst(DataClass("OutgoingMessage"), [body |-> "hi", provider |-> None]) }

RegisteredExcs == { Exc(ExcClass(ExceptionTuple[i]), <<"failed">>) : i \in DOMAIN ExceptionTuple }
OtherExcs ==
    { Exc(ClassObj("exceptions", "RuntimeError"), <<"boom">>),
      Exc(HTTPExc("NotFound"), <<"no such page">>),
      Exc(HTTPExc("BadRequest"), <<"bad request">>) }
HandlerExcs == RegisteredExcs \cup OtherExcs

GatewayBehaviours ==
    { [kind |-> "sent", msgid |-> "abc123", provider |-> "serverProviderA"],
      [kind |-> "sent", msgid |-> "m2", provider |-> "fwd"] }
    \cup { [kind |-> "raise", exc |-> e] : e \in HandlerExcs }

ErrorBody == jsonex_dumps([error |-> Exc(ExcClass("AuthError"), <<"denied">>)])
MessageBody == jsonex_dumps([message |-> Inst(DataClass("OutgoingMessage"), [body |-> "hi"])])
RawResponses ==
    { [code |-> c, headers |-> hd, body |-> b] :
        c \in {200, 500},
        hd \in { ("Server" :> "nginx"), ("Content-Type" :> "text/html"),
                 ("Content-Type" :> "application/json"),
                 ("Content-Type" :> "application/json; charset=utf-8") },
        b \in { ErrorBody, MessageBody, [fmt |-> "html", doc |-> "Bad Gateway"] } }

Unreachable == [kind |-> "unreachable", message |-> "Connection refused"]

ServerRemotes ==
    { Unreachable }
    \cup { [kind |-> "raw", response |-> r] : r \in RawResponses }
    \cup { [kind |-> "server", gw |-> g] : g \in GatewayBehaviours }

\* a success response that carries no "message"
StatusBody ==
    jsonex_dumps([status |-> Inst(DataClass("MessageDelivered"), [msgid |-> "abc123"])])

\* what may stand behind the client plugin's server_url
SendRemotes ==
    { Unreachable,
      [kind |-> "raw", response |-> [code |-> 502, headers |-> ("Server" :> "nginx"),
                                     body |-> [fmt |-> "html", doc |-> "Bad Gateway"]]],
      [kind |-> "raw", response |-> [code |-> 200,
                                     headers |-> ("Content-Type" :> "application/json"),
                                     body |-> StatusBody]] }
    \cup { [kind |-> "server", gw |-> g] : g \in GatewayBehaviours }

ClientRemotes ==
    { Unreachable,
      [kind |-> "raw", response |-> [code |-> 502, headers |-> ("Server" :> "nginx"),
                                     body |-> [fmt |-> "html", doc |-> "Bad Gateway"]]],
      [kind |-> "client", hook |-> [kind |-> "ok"]],
      [kind |-> "client", hook |-> [kind |-> "raise",
                                    exc |-> Exc(ExcClass("LimitsError"), <<"busy">>)]] }

RequestData == [message |-> Inst(DataClass("OutgoingMessage"), [body |-> "hi"])]

WrapperArgs ==
    { Inst(DataClass("IncomingMessage"), [body |-> "yo", provider |-> "carrier"]),
      Inst(DataClass("MessageStatus"), [msgid |-> "abc123", provider |-> "carrier"]) }

Handlers ==
    { [view |-> "returns"] } \cup { [view |-> "raises", exc |-> e] : e \in HandlerExcs }

\* ----------------------------------------------------------- plugin methods
\* as ForwardClientProvider_send_result, returning the decoded object instead
\* of copying its fields onto the caller's message
ForwardClientProvider_send_nocopy(h, message, r) ==
    IF r.outcome.kind = "raise"
    THEN [heap |-> h, outcome |-> r.outcome, trace |-> r.trace]
    ELSE IF "message" \notin DOMAIN r.outcome.value
    THEN [heap |-> h, outcome |-> Raise(KeyErrorExc("message")), trace |-> r.trace]
    ELSE [heap |-> [o \in (DOMAIN h) \cup {"msg"} |->
                        IF o = "msg" THEN r.outcome.value["message"] ELSE h[o]],
          outcome |-> Return("msg"), trace |-> r.trace]

\* as ForwardClientProvider_send_result, the message's provider having been
\* cleared before the round trip
ForwardClientProvider_send_cleared(h, message, r) ==
    IF r.outcome.kind = "raise"
    THEN [heap |-> [h EXCEPT ![message].dict = SetAttrs(@, [provider |-> None])],
          outcome |-> r.outcome, trace |-> r.trace]
    ELSE IF "message" \notin DOMAIN r.outcome.value
    THEN [heap |-> [h EXCEPT ![message].dict = SetAttrs(@, [provider |-> None])],
          outcome |-> Raise(KeyErrorExc("message")), trace |-> r.trace]
    ELSE [heap |-> [h EXCEPT ![message].dict =
                        SetAttrs(@, r.outcome.value["message"].dict)],
          outcome |-> Return(message), trace |-> r.trace]

\* provider.py:127-132, r being what jsonex_request did
ForwardClientProvider_send_result(h, message, r) ==
    IF r.outcome.kind = "raise"
    THEN [heap |-> h, outcome |-> r.outcome, trace |-> r.trace]
    ELSE IF "message" \notin DOMAIN r.outcome.value
    THEN [heap |-> h, outcome |-> Raise(KeyErrorExc("message")), trace |-> r.trace]
    ELSE [heap |-> [h EXCEPT ![message].dict =
                        SetAttrs(@, r.outcome.value["message"].dict)],
          outcome |-> Return(message), trace |-> r.trace]

\* provider.py:118-132
ForwardClientProvider_send(h, message, remote) ==
    ForwardClientProvider_send_result(h, message,
        jsonex_request(server_url \o <<"/im">>, [message |-> h[message]], remote))

choose_clients_skip_first(obj) == IF clients = << >> THEN << >> ELSE Tail(clients)

\* provider.py:172-182
choose_clients(obj) == clients

\* as forward_supported, every object passing
forward_supported_any(obj) == obj.cls \in Range(classes)

\* provider.py:191: isinstance(obj, (IncomingMessage, MessageStatus))
forward_supported(obj) ==
    obj.cls \in {DataClass("IncomingMessage")} \cup {DataClass(n) : n \in MessageStatusClasses}

AssertionErrorExc ==
    Exc(ClassObj("exceptions", "AssertionError"),
        <<"Tried to forward an object of an unsupported type">>)

\* as forward_route, with the two envelope keys exchanged
forward_route_swapped(obj) ==
    IF obj.cls = DataClass("IncomingMessage")
    THEN [url |-> "/im", name |-> "status"]
    ELSE [url |-> "/status", name |-> "message"]

\* provider.py:194: (url, name)
forward_route(obj) ==
    IF obj.cls = DataClass("IncomingMessage")
    THEN [url |-> "/im", name |-> "message"]
    ELSE [url |-> "/status", name |-> "status"]

\* provider.py:196: return res[name], r being what jsonex_request did
forward_object_result(key, r) ==
    IF r.outcome.kind = "raise" THEN r
    ELSE IF key \notin DOMAIN r.outcome.value
    THEN [outcome |-> Raise(KeyErrorExc(key)), trace |-> r.trace]
    ELSE [outcome |-> Return(r.outcome.value[key]), trace |-> r.trace]

\* provider.py:194-196
forward_object_request(client, obj, rt, remote) ==
    forward_object_result(rt.name,
        jsonex_request(client \o <<rt.url>>, (rt.name :> obj), remote))

\* provider.py:184-196
forward_object_to_client(client, obj, remote) ==
    IF ~forward_supported(obj)
    THEN [outcome |-> Raise(AssertionErrorExc), trace |-> << >>]
    ELSE forward_object_request(client, obj, forward_route(obj), remote)

\* ------------------------------------------------------------ the machine
Running == [kind |-> "running"]
NoCall == [kind |-> "none"]
Idle == [pc |-> "idle"]

\* a gateway on which nothing is registered yet
EmptyGateway == [providers |-> << >>, onReceive |-> << >>, onStatus |-> << >>]

Init ==
    /\ server_url \in ServerURLs
    /\ name \in ProviderNames
    /\ clients \in SeqUpTo(URLs, MaxClients)
    /\ heap = << >>
    /\ call = [fn |-> "none"]
    /\ result = NoCall
    /\ trace = << >>
    /\ gwcalls = << >>
    /\ fcalls = << >>
    /\ fwd = Idle
    /\ gateway = EmptyGateway
    /\ firing = Idle
    /\ stack = << >>

\* the caller's heap: one OutgoingMessage with the fields d
NewMessage(ref, d) == (ref :> Inst(DataClass("OutgoingMessage"), d))

\* the call ends as r says
SendEnds(r) == heap' = r.heap /\ result' = r.outcome /\ trace' = r.trace
GatewayCallEnds(r) == heap' = r.heap /\ result' = r.outcome /\ gwcalls' = r.gwcalls
WrapperEnds(r) == result' = Return(r.response) /\ fcalls' = r.fcalls
RequestEnds(r) == result' = r.outcome /\ trace' = r.trace

\* no call is in progress
Quiet == fwd.pc \in {"idle", "done", "raised"}

\* ForwardClientProvider.send(m), provider.py:118-132
ClientSend ==
    /\ Quiet
    /\ \E d \in OutgoingDicts, remote \in SendRemotes :
        /\ call' = [fn |-> "ForwardClientProvider.send", arg |-> "m",
                    before |-> NewMessage("m", d), remote |-> remote]
        /\ SendEnds(ForwardClientProvider_send(NewMessage("m", d), "m", remote))
    /\ gwcalls' = << >>
    /\ fcalls' = << >>
    /\ fwd' = Idle
    /\ UNCHANGED << config, host >>

\* ForwardServerProvider.send(message), provider.py:210-217
ServerSend ==
    /\ Quiet
    /\ \E d \in OutgoingDicts, gw \in GatewayBehaviours :
        /\ call' = [fn |-> "ForwardServerProvider.send", arg |-> "message",
                    before |-> NewMessage("message", d)]
        /\ GatewayCallEnds(
                ForwardServerProvider_send(NewMessage("message", d), "message", gw))
    /\ trace' = << >>
    /\ fcalls' = << >>
    /\ fwd' = Idle
    /\ UNCHANGED << config, host >>

\* ForwardClientProvider._receive_message(message), provider.py:141-144
ClientReceiveMessage ==
    /\ Quiet
    /\ \E obj \in {o \in ForwardedObjects : o.cls = DataClass("IncomingMessage")} :
        /\ call' = [fn |-> "ForwardClientProvider._receive_message",
                    arg |-> "message", before |-> ("message" :> obj)]
        /\ GatewayCallEnds(
                ForwardClientProvider_receive_message(("message" :> obj), "message"))
    /\ trace' = << >>
    /\ fcalls' = << >>
    /\ fwd' = Idle
    /\ UNCHANGED << config, host >>

\* ForwardClientProvider._receive_status(status), provider.py:146-149
ClientReceiveStatus ==
    /\ Quiet
    /\ \E obj \in {o \in ForwardedObjects : o.cls.name \in MessageStatusClasses} :
        /\ call' = [fn |-> "ForwardClientProvider._receive_status",
                    arg |-> "status", before |-> ("status" :> obj)]
        /\ GatewayCallEnds(
                ForwardClientProvider_receive_status(("status" :> obj), "status"))
    /\ trace' = << >>
    /\ fcalls' = << >>
    /\ fwd' = Idle
    /\ UNCHANGED << config, host >>

\* a call of a jsonex_api-wrapped handler f with one positional argument,
\* provider.py:47-64
WrapperCall ==
    /\ Quiet
    /\ \E f \in Handlers, arg \in WrapperArgs :
        /\ call' = [fn |-> "jsonex_api.wrapper", f |-> f, args |-> <<arg>>]
        /\ WrapperEnds(jsonex_api(f, <<arg>>, jsonex_dumps(<< >>)))
    /\ heap' = << >>
    /\ trace' = << >>
    /\ gwcalls' = << >>
    /\ fwd' = Idle
    /\ UNCHANGED << config, host >>

\* jsonex_request(url, data), provider.py:67-97
RequestCall ==
    /\ Quiet
    /\ \E base \in ServerURLs, remote \in ServerRemotes :
        /\ call' = [fn |-> "jsonex_request", url |-> base \o <<"/im">>,
                    data |-> RequestData, remote |-> remote]
        /\ RequestEnds(jsonex_request(base \o <<"/im">>, RequestData, remote))
    /\ heap' = << >>
    /\ gwcalls' = << >>
    /\ fcalls' = << >>
    /\ fwd' = Idle
    /\ UNCHANGED << config, host >>

\* ForwardServerProvider.forward(obj), provider.py:204: clients are chosen
ForwardBegin ==
    /\ Quiet
    /\ \E obj \in ForwardedObjects :
        /\ call' = [fn |-> "ForwardServerProvider.forward", obj |-> obj]
        /\ fwd' = [pc |-> "loop", obj |-> obj, clients |-> choose_clients(obj), i |-> 1]
    /\ heap' = << >>
    /\ result' = Running
    /\ trace' = << >>
    /\ gwcalls' = << >>
    /\ fcalls' = << >>
    /\ UNCHANGED << config, host >>

\* r is what _forward_object_to_client does for the current client: raise
\* before any request, or issue the request and wait for its end
ForwardIssued(r, remote) ==
    IF r.trace = << >>
    THEN /\ fwd' = [fwd EXCEPT !.pc = "raised"]
         /\ result' = r.outcome
         /\ trace' = trace
    ELSE /\ fwd' = [pc |-> "call", obj |-> fwd.obj, clients |-> fwd.clients,
                    i |-> fwd.i, pending |-> r, remote |-> remote]
         /\ result' = result
         /\ trace' = Append(trace, Head(r.trace))

\* provider.py:207-208 and 191-195: the next client's request is issued (the
\* remote end's behaviour for it is `remote`), or the type assertion fails
ForwardIssue ==
    /\ fwd.pc = "loop"
    /\ fwd.i <= Len(fwd.clients)
    /\ \E remote \in ClientRemotes :
        ForwardIssued(forward_object_to_client(fwd.clients[fwd.i], fwd.obj, remote),
                      remote)
    /\ UNCHANGED << config, host, heap, call, gwcalls, fcalls >>

\* as ForwardComplete, with a failed request swallowed and the loop going on
ForwardComplete_swallow ==
    /\ fwd.pc = "call"
    /\ LET r == fwd.pending
           rest == Tail(r.trace)
                   \o << [ev |-> "completed", url |-> Head(r.trace).url,
                          outcome |-> r.outcome] >>
       IN  /\ trace' = trace \o rest
           /\ fwd' = [pc |-> "loop", obj |-> fwd.obj, clients |-> fwd.clients,
                      i |-> fwd.i + 1]
           /\ result' = result
    /\ UNCHANGED << config, host, heap, call, gwcalls, fcalls >>

\* provider.py:195-196 and 207-208: the pending request ends; an exception
\* leaves forward, a normal return moves the loop to the next client
ForwardComplete ==
    /\ fwd.pc = "call"
    /\ LET r == fwd.pending
           rest == Tail(r.trace)
                   \o << [ev |-> "completed", url |-> Head(r.trace).url,
                          outcome |-> r.outcome] >>
       IN  /\ trace' = trace \o rest
           /\ IF r.outcome.kind = "raise"
              THEN /\ fwd' = [pc |-> "raised", obj |-> fwd.obj, clients |-> fwd.clients,
                              i |-> fwd.i]
                   /\ result' = r.outcome
              ELSE /\ fwd' = [pc |-> "loop", obj |-> fwd.obj, clients |-> fwd.clients,
                              i |-> fwd.i + 1]
                   /\ result' = result
    /\ UNCHANGED << config, host, heap, call, gwcalls, fcalls >>

\* provider.py:207: the list is exhausted, forward returns None
ForwardEnd ==
    /\ fwd.pc = "loop"
    /\ fwd.i > Len(fwd.clients)
    /\ fwd' = [fwd EXCEPT !.pc = "done"]
    /\ result' = Return(None)
    /\ UNCHANGED << config, host, heap, call, trace, gwcalls, fcalls >>

Next ==
    \/ ClientSend
    \/ ServerSend
    \/ ClientReceiveMessage
    \/ ClientReceiveStatus
    \/ WrapperCall
    \/ RequestCall
    \/ ForwardBegin
    \/ ForwardIssue
    \/ ForwardComplete
    \/ ForwardEnd

Spec == Init /\ [][Next]_vars

\* ------------------------------------------------------ the server gateway
\* The gateway the server plugin is installed in: providers are registered on
\* it one by one, its onReceive / onStatus events call their subscribers in
\* subscription order (an exception leaves the event), and its send hands a
\* message that names no provider to the default provider, the first one
\* registered, or to the one its router names.

\* names under which providers are registered, in registration order
ServerProviderNames == << "main", "backup", "bulk", "intl", "test" >>
ProviderName(i) == ServerProviderNames[i]

\* client lists a server plugin may be configured with
PluginClients == { << <<"http://c1">> >>, << <<"http://c1">>, <<"http://c2">> >> }

\* the providers that may be registered as the i-th: a carrier's provider or
\* a server forwarding plugin
NewProviders(i) ==
    { [name |-> ProviderName(i), kind |-> "carrier", clients |-> << >>] }
    \cup { [name |-> ProviderName(i), kind |-> "forward", clients |-> cl] :
                cl \in PluginClients }

\* what answers a forwarded object at a client URL
PassRemotes == { [kind |-> "client", hook |-> [kind |-> "ok"]], Unreachable }

ReceivedMessages ==
    { Inst(DataClass("IncomingMessage"), [body |-> "yo", provider |-> "carrier"]) }
ReceivedStatuses ==
    { Inst(DataClass("MessageDelivered"), [msgid |-> "abc123", provider |-> "carrier"]) }

\* as ForwardServerProvider_init, subscribing to the inbound-message event only
ForwardServerProvider_init_receive_only(gw, nm) ==
    [gw EXCEPT !.onReceive = Append(@, nm)]

\* provider.py:159-170: the gateway's events once the plugin named nm has been
\* constructed on it; a subscriber self.forward is kept as self's name
ForwardServerProvider_init(gw, nm) ==
    [gw EXCEPT !.onReceive = Append(@, nm), !.onStatus = Append(@, nm)]

\* Gateway.add_provider: constructs the provider on the gateway and registers
\* it under its name
Gateway_add_provider(gw, p) ==
    IF p.kind = "forward"
    THEN [ForwardServerProvider_init(gw, p.name) EXCEPT !.providers = Append(@, p)]
    ELSE [gw EXCEPT !.providers = Append(@, p)]

\* Gateway.get_provider(name)
Provider(gw, nm) ==
    gw.providers[CHOOSE i \in 1..Len(gw.providers) : gw.providers[i].name = nm]

\* provider.py:204-208 for the plugin self: its clients one after the other,
\* remotes[i] being what answers at the i-th; the first failure leaves the loop
RECURSIVE forward_from(_, _, _, _)
forward_next(r, cl, obj, remotes, i) ==
    IF r.outcome.kind = "raise" THEN r.outcome
    ELSE forward_from(cl, obj, remotes, i + 1)

forward_from(cl, obj, remotes, i) ==
    IF i > Len(cl) THEN Return(None)
    ELSE forward_next(forward_object_to_client(cl[i], obj, remotes[i]),
                      cl, obj, remotes, i)

\* provider.py:198-208, choose_clients being the default (self.clients)
forward(self, obj, remotes) == forward_from(self.clients, obj, remotes, 1)

\* provider.py:216
ClearProvider(h, message) ==
    [h EXCEPT ![message].dict = SetAttrs(@, [provider |-> None])]

\* Gateway.send for a message that names no provider: the router's choice,
\* None standing for "no routing applies" and giving the default provider
RouterChoices(gw) == {None} \cup { gw.providers[i].name : i \in 1..Len(gw.providers) }
Gateway_send_provider(gw, route) ==
    IF route = None THEN gw.providers[1] ELSE Provider(gw, route)

RecursionErrorExc ==
    Exc(ClassObj("exceptions", "RuntimeError"), <<"maximum recursion depth exceeded">>)

GInit ==
    /\ server_url = None
    /\ name = None
    /\ clients = << >>
    /\ heap = << >>
    /\ call = [fn |-> "none"]
    /\ result = NoCall
    /\ trace = << >>
    /\ gwcalls = << >>
    /\ fcalls = << >>
    /\ fwd = Idle
    /\ gateway = EmptyGateway
    /\ firing = Idle
    /\ stack = << >>

\* no call into the gateway is in progress
GQuiet == firing.pc \in {"idle", "done", "raised"} /\ result # Running

\* Gateway.add_provider(name, Provider, **config)
AddProvider ==
    /\ GQuiet
    /\ Len(gateway.providers) < MaxProviders
    /\ Len(gateway.providers) < Len(ServerProviderNames)
    /\ \E p \in NewProviders(Len(gateway.providers) + 1) :
        /\ gateway' = Gateway_add_provider(gateway, p)
        /\ call' = [fn |-> "Gateway.add_provider", provider |-> p]
    /\ result' = Return(None)
    /\ trace' = << >>
    /\ heap' = << >>
    /\ firing' = Idle
    /\ stack' = << >>
    /\ UNCHANGED << config, gwcalls, fcalls, fwd >>

\* an event begins: its subscribers are about to be called
Fired(hook, obj) ==
    /\ call' = [fn |-> hook, obj |-> obj]
    /\ firing' = [pc |-> "firing", i |-> 1,
                  handlers |-> IF hook = "Gateway.onReceive"
                               THEN gateway.onReceive ELSE gateway.onStatus]
    /\ result' = Running
    /\ trace' = << >>
    /\ heap' = << >>
    /\ stack' = << >>
    /\ UNCHANGED << config, gateway, gwcalls, fcalls, fwd >>

\* a provider of the gateway received a message: gateway.onReceive(message)
FireReceive == GQuiet /\ \E obj \in ReceivedMessages : Fired("Gateway.onReceive", obj)

\* a provider of the gateway received a status: gateway.onStatus(status)
FireStatus == GQuiet /\ \E obj \in ReceivedStatuses : Fired("Gateway.onStatus", obj)

\* the subscriber nm has been called and ended as outcome says
HookCalled(nm, outcome) ==
    /\ trace' = Append(trace, [ev |-> "forward", plugin |-> nm, obj |-> call.obj,
                               outcome |-> outcome])
    /\ IF outcome.kind = "raise"
       THEN firing' = [firing EXCEPT !.pc = "raised"] /\ result' = outcome
       ELSE firing' = [firing EXCEPT !.i = @ + 1] /\ result' = result

\* the event calls its next subscriber, a plugin's forward (provider.py:198)
HookCall ==
    /\ firing.pc = "firing"
    /\ firing.i <= Len(firing.handlers)
    /\ \E remotes \in [1..Len(Provider(gateway, firing.handlers[firing.i]).clients)
                            -> PassRemotes] :
        HookCalled(firing.handlers[firing.i],
                   forward(Provider(gateway, firing.handlers[firing.i]), call.obj, remotes))
    /\ UNCHANGED << config, gateway, heap, call, gwcalls, fcalls, fwd, stack >>

\* every subscriber has returned: the event returns
HookEnd ==
    /\ firing.pc = "firing"
    /\ firing.i > Len(firing.handlers)
    /\ firing' = [firing EXCEPT !.pc = "done"]
    /\ result' = Return(None)
    /\ UNCHANGED << config, gateway, heap, call, trace, gwcalls, fcalls, fwd, stack >>

\* ForwardServerProvider.send(message) is called on a registered plugin;
\* provider.py:216 has run and gateway.send(message) is about to
PluginSend ==
    /\ GQuiet
    /\ \E i \in 1..Len(gateway.providers), d \in OutgoingDicts :
        /\ gateway.providers[i].kind = "forward"
        /\ call' = [fn |-> "ForwardServerProvider.send", arg |-> "message",
                    self |-> gateway.providers[i].name,
                    before |-> NewMessage("message", d)]
        /\ heap' = ClearProvider(NewMessage("message", d), "message")
        /\ stack' = << gateway.providers[i].name >>
    /\ result' = Running
    /\ trace' = << >>
    /\ firing' = Idle
    /\ UNCHANGED << config, gateway, gwcalls, fcalls, fwd >>

\* gateway.send(message) has picked the provider p for the message
GatewaySent(p) ==
    IF p.kind = "carrier"
    THEN /\ heap' = [heap EXCEPT !["message"].dict =
                        SetAttrs(@, [provider |-> p.name, msgid |-> "abc123"])]
         /\ result' = Return("message")
         /\ stack' = stack
    ELSE IF Len(stack) >= MaxDepth
    THEN /\ heap' = [heap EXCEPT !["message"].dict = SetAttrs(@, [provider |-> p.name])]
         /\ result' = Raise(RecursionErrorExc)
         /\ stack' = stack
    ELSE /\ heap' = ClearProvider(heap, "message")
         /\ result' = result
         /\ stack' = Append(stack, p.name)

\* provider.py:217: gateway.send(message) names the provider and calls its
\* send: a carrier's provider sends the message, a forwarding plugin's send
\* is entered (provider.py:216 runs again) unless the stack is exhausted
GatewaySend ==
    /\ stack # << >>
    /\ result = Running
    /\ \E route \in RouterChoices(gateway) :
        GatewaySent(Gateway_send_provider(gateway, route))
    /\ trace' = Append(trace, [ev |-> "Gateway.send", depth |-> Len(stack)])
    /\ UNCHANGED << config, gateway, call, gwcalls, fcalls, fwd, firing >>

GNext ==
    \/ AddProvider
    \/ FireReceive
    \/ FireStatus
    \/ HookCall
    \/ HookEnd
    \/ PluginSend
    \/ GatewaySend

GatewaySpec == GInit /\ [][GNext]_vars

\* ================================================================ claims
InForward == call.fn = "ForwardServerProvider.forward"
IsUrlopen(e) == e.ev = "urlopen"
IsCompleted(e) == e.ev = "completed"
Requests(tr) == SelectSeq(tr, IsUrlopen)
Completions(tr) == SelectSeq(tr, IsCompleted)
Prefix(sq, n) == SubSeq(sq, 1, n)

\* the URL forward posts obj to at the client with base URL c
TargetURL(c, obj) ==
    c \o << IF obj.cls = DataClass("IncomingMessage") THEN "/im" ELSE "/status" >>

\* C1: with the default choose_clients, a forward(obj) pass that returns
\* normally has issued exactly one request per entry of the client list, in
\* list order; and at every moment of a pass the requests issued so far go to
\* the first entries of the list in order, each one issued only after every
\* earlier request has completed.
C1_FanOutInListOrder ==
    InForward =>
        LET reqs == Requests(trace)
        IN  /\ Len(reqs) <= Len(clients)
            /\ \A i \in 1..Len(reqs) : reqs[i].url = TargetURL(clients[i], call.obj)
            /\ \A p \in 1..Len(trace) :
                    IsUrlopen(trace[p]) =>
                        Len(Requests(Prefix(trace, p - 1)))
                            = Len(Completions(Prefix(trace, p - 1)))
            /\ fwd.pc = "done" => Len(reqs) = Len(clients)

C1_Witness ==
    /\ InForward
    /\ fwd.pc = "done"
    /\ Len(clients) >= 2
    /\ Len(Requests(trace)) = Len(clients)

\* C2: once a request of a forward pass has failed, that request is the last
\* thing the pass did: the clients before it were each contacted once, in
\* order, no later client is or will be contacted, and forward has raised the
\* very exception the RPC helper raised.
C2_FailureAbortsPass ==
    InForward =>
        \A p \in 1..Len(trace) :
            (IsCompleted(trace[p]) /\ trace[p].outcome.kind = "raise") =>
                LET reqs == Requests(trace)
                IN  /\ p = Len(trace)
                    /\ fwd.pc = "raised"
                    /\ result = trace[p].outcome
                    /\ Len(reqs) = fwd.i
                    /\ fwd.i <= Len(clients)
                    /\ \A i \in 1..Len(reqs) :
                            reqs[i].url = TargetURL(clients[i], call.obj)
                    /\ Len(Completions(trace)) = Len(reqs)
                    /\ ~ENABLED ForwardIssue
                    /\ ~ENABLED ForwardComplete

C2_Witness ==
    /\ InForward
    /\ fwd.pc = "raised"
    /\ fwd.i = 2
    /\ Len(clients) = 3
    /\ Len(Requests(trace)) = 2
    /\ result.kind = "raise"
    /\ result.exc.cls = ExcClass("ConnectionError")

InClientSend == call.fn = "ForwardClientProvider.send"
InServerSend == call.fn = "ForwardServerProvider.send"
InReceive ==
    call.fn \in {"ForwardClientProvider._receive_message",
                 "ForwardClientProvider._receive_status"}
InWrapper == call.fn = "jsonex_api.wrapper"
InRequest == call.fn = "jsonex_request"

\* the message as the server's gateway returns it: the caller's fields, with
\* the identifier and provider name the sending provider assigned
ServerAssigned(d, gw) ==
    [f \in (DOMAIN d) \cup {"msgid", "provider"} |->
        IF f = "msgid" THEN gw.msgid ELSE IF f = "provider" THEN gw.provider ELSE d[f]]

\* C3: when the client plugin's send(m) returns, it returns the reference m it
\* was given, and every field of the message the server returned has been
\* copied onto that object: its identifier and provider name are the ones the
\* server assigned.
C3_SendMutatesInPlace ==
    (InClientSend /\ result.kind = "return") =>
        LET gw == call.remote.gw
            served == ServerAssigned(call.before[call.arg].dict, gw)
        IN  /\ result.value = call.arg
            /\ DOMAIN heap = DOMAIN call.before
            /\ heap[call.arg].cls = call.before[call.arg].cls
            /\ \A f \in DOMAIN served : heap[call.arg].dict[f] = served[f]
            /\ heap[call.arg].dict["msgid"] = gw.msgid
            /\ heap[call.arg].dict["provider"] = gw.provider

C3_Witness ==
    /\ InClientSend
    /\ result = Return("m")
    /\ call.before["m"].dict = [body |-> "hi"]
    /\ heap["m"].dict = [body |-> "hi", msgid |-> "abc123", provider |-> "serverProviderA"]

\* C4: if the server-side handler of a client send raises an exception whose
\* class is in the exception registry, the client plugin's send raises an
\* exception of that same class, with the same arguments.
C4_RegisteredErrorRoundTrips ==
    (/\ InClientSend
     /\ call.remote.kind = "server"
     /\ call.remote.gw.kind = "raise"
     /\ call.remote.gw.exc.cls \in Range(exceptions)) =>
        /\ result.kind = "raise"
        /\ result.exc.cls = call.remote.gw.exc.cls
        /\ result.exc = call.remote.gw.exc

C4_Witness ==
    /\ InClientSend
    /\ call.remote.kind = "server"
    /\ call.remote.gw.kind = "raise"
    /\ call.remote.gw.exc.cls = ExcClass("CreditError")
    /\ result.kind = "raise"
    /\ result.exc.cls = ExcClass("CreditError")

C6_ProviderClearedBeforeResubmit ==
    InServerSend =>
        /\ Len(gwcalls) = 1
        /\ gwcalls[1].fn = "send"
        /\ gwcalls[1].arg = call.arg
        /\ "provider" \in DOMAIN gwcalls[1].obj.dict
        /\ gwcalls[1].obj.dict["provider"] = None
        /\ \A f \in DOMAIN call.before[call.arg].dict :
                f # "provider" => gwcalls[1].obj.dict[f] = call.before[call.arg].dict[f]

C6_Witness ==
    /\ InServerSend
    /\ "provider" \in DOMAIN call.before[call.arg].dict
    /\ call.before[call.arg].dict["provider"] = "fwd"
    /\ Len(gwcalls) = 1
    /\ gwcalls[1].obj.dict["provider"] = None

\* C7: a wrapped handler that raises an exception which is no HTTPException
\* yields a response (nothing propagates) of status 500, content type
\* application/json, the body of which is the encoding of {"error": e}.
C7_PlainFailureIs500Envelope ==
    (InWrapper /\ call.f.view = "raises" /\ ~IsHTTPException(call.f.exc)) =>
        /\ result.kind = "return"
        /\ result.value.code = 500
        /\ result.value.headers["Content-Type"] = "application/json"
        /\ result.value.body = jsonex_dumps([error |-> call.f.exc])

C7_Witness ==
    /\ InWrapper
    /\ call.f.view = "raises"
    /\ call.f.exc.cls = ClassObj("exceptions", "RuntimeError")
    /\ result.kind = "return"
    /\ result.value.code = 500

\* C8: a wrapped handler that returns v yields status 200 and the encoding of
\* v; one that raises an HTTPException carrying code c yields status c and
\* the encoding of {"error": e}; both with content type application/json, the
\* handler having been called exactly once, with the wrapper's arguments.
C8_ReturnAndHttpError ==
    (InWrapper /\ (call.f.view = "returns" \/ IsHTTPException(call.f.exc))) =>
        /\ result.kind = "return"
        /\ result.value.headers["Content-Type"] = "application/json"
        /\ fcalls = << [f |-> call.f, args |-> call.args] >>
        /\ IF call.f.view = "returns"
           THEN /\ result.value.code = 200
                /\ result.value.body = jsonex_dumps([result |-> call.args[1]])
           ELSE /\ result.value.code = HTTPExceptionCode[call.f.exc.cls.name]
                /\ result.value.body = jsonex_dumps([error |-> call.f.exc])

C8_Witness ==
    /\ InWrapper
    /\ call.f.view = "raises"
    /\ call.f.exc.cls = HTTPExc("NotFound")
    /\ result.kind = "return"
    /\ result.value.code = 404

\* C9 as stated: the object the client plugin publishes through the gateway's
\* receive/status pipeline carries the client plugin's own provider name.
C9_PublishedCarriesOwnName ==
    InReceive => \A i \in 1..Len(gwcalls) : gwcalls[i].obj.dict["provider"] = name

\* C9 amended: the client plugin publishes the object it received exactly
\* once, through onReceive for a message and onStatus for a status, with the
\* provider name (and every other field) it carried on arrival, and returns
\* that same object.
C9_PublishedKeepsOriginalName ==
    InReceive =>
        /\ Len(gwcalls) = 1
        /\ gwcalls[1].fn = (IF call.fn = "ForwardClientProvider._receive_message"
                             THEN "onReceive" ELSE "onStatus")
        /\ gwcalls[1].arg = call.arg
        /\ gwcalls[1].obj = call.before[call.arg]
        /\ gwcalls[1].obj.dict["provider"] = call.before[call.arg].dict["provider"]
        /\ heap = call.before
        /\ result = Return(call.arg)

C9_Witness ==
    /\ call.fn = "ForwardClientProvider._receive_message"
    /\ call.before[call.arg].dict["provider"] = "carrier"
    /\ name = "client"
    /\ Len(gwcalls) = 1
    /\ gwcalls[1].obj.dict["provider"] = "carrier"

\* the response's headers declare a JSON content type
DeclaresJson(headers) ==
    /\ "Content-Type" \in DOMAIN headers
    /\ headers["Content-Type"] \in
            {"application/json", "application/json; charset=utf-8"}

IsErrorStatus(code) == ~(code >= 200 /\ code < 300)

\* C10: when the remote end answers jsonex_request with an error status and
\* no JSON content type (no Content-Type header, or another type), the helper
\* raises ServerError with the target URL in its message and never calls
\* jsonex_loads on the body.
C10_NonJsonErrorIsServerError ==
    (/\ InRequest
     /\ call.remote.kind = "raw"
     /\ IsErrorStatus(call.remote.response.code)
     /\ ~DeclaresJson(call.remote.response.headers)) =>
        /\ result.kind = "raise"
        /\ result.exc.cls = ExcClass("ServerError")
        /\ Contains(result.exc.dict.args, call.url)
        /\ \A p \in 1..Len(trace) : trace[p].ev # "jsonex_loads"
        /\ Len(Requests(trace)) = 1

C10_Witness ==
    /\ InRequest
    /\ call.remote.kind = "raw"
    /\ call.remote.response.code = 500
    /\ call.remote.response.headers = ("Content-Type" :> "text/html")
    /\ call.remote.response.body.fmt = "json"
    /\ result.kind = "raise"
    /\ result.exc.cls = ExcClass("ServerError")

\* the body is JSON and carries, under "error", an exception of a registered class
CarriesError(body) ==
    /\ body.fmt = "json"
    /\ "error" \in DOMAIN body.doc
    /\ body.doc["error"].__type__ \in DOMAIN exceptions

\* the exception a body carries under "error"
CarriedError(body) ==
    [k |-> "exc", cls |-> ExcClass(body.doc["error"].__type__),
     dict |-> body.doc["error"].data]

\* C11: for every error-status response that declares a JSON content type,
\* be it exactly application/json or application/json with parameters such as
\* a charset, jsonex_request decodes the body and raises the error found
\* under "error", not the generic ServerError.
C11_JsonErrorResponseIsDecoded ==
    (/\ InRequest
     /\ call.remote.kind = "raw"
     /\ IsErrorStatus(call.remote.response.code)
     /\ DeclaresJson(call.remote.response.headers)
     /\ CarriesError(call.remote.response.body)) =>
        /\ result = Raise(CarriedError(call.remote.response.body))
        /\ \E p \in 1..Len(trace) : trace[p].ev = "jsonex_loads"

\* C12: when a success response decodes to a map with the key "error",
\* jsonex_request raises the decoded value; and no map jsonex_request returns
\* normally contains the key "error".
C12_ErrorKeyIsRaised ==
    InRequest =>
        /\ (/\ call.remote.kind = "raw"
            /\ ~IsErrorStatus(call.remote.response.code)
            /\ CarriesError(call.remote.response.body)) =>
                result = Raise(CarriedError(call.remote.response.body))
        /\ result.kind = "return" => "error" \notin DOMAIN result.value

C12_Witness ==
    /\ InRequest
    /\ call.remote.kind = "raw"
    /\ call.remote.response.code = 200
    /\ call.remote.response.body = ErrorBody
    /\ result.kind = "raise"
    /\ result.exc.cls = ExcClass("AuthError")

\* C19: jsonex_request returns normally only for a success response: every
\* error-status response, whatever its content type and body, ends in an
\* exception.
C19_ErrorStatusAlwaysRaises ==
    (/\ InRequest
     /\ call.remote.kind = "raw"
     /\ IsErrorStatus(call.remote.response.code)) =>
        result.kind = "raise"

\* a client receiver whose gateway hooks succeed
WorkingClient == [kind |-> "client", hook |-> [kind |-> "ok"]]

\* C13: forwarding one object to one client picks the route from the object's
\* kind alone: an IncomingMessage is posted to client_url + "/im" under the
\* key "message", a MessageStatus of any variant to client_url + "/status"
\* under the key "status" (so a working client receiver, which reads that key
\* on that route, answers with its echo), and the call returns the object the
\* client echoed back.
C13_RouteByObjectKind ==
    InForward =>
        /\ \A p \in 1..Len(trace) :
                /\ IsUrlopen(trace[p]) =>
                        /\ call.obj.cls = DataClass("IncomingMessage")
                                => Last(trace[p].url) = "/im"
                        /\ call.obj.cls.name \in MessageStatusClasses
                                => Last(trace[p].url) = "/status"
                        /\ Len(trace[p].url) = 2
                /\ (IsCompleted(trace[p]) /\ trace[p].outcome.kind = "return")
                        => trace[p].outcome.value = call.obj
        /\ (fwd.pc = "call" /\ fwd.remote = WorkingClient)
                => fwd.pending.outcome = Return(call.obj)

C13_Witness ==
    /\ InForward
    /\ call.obj.cls = DataClass("MessageDelivered")
    /\ Len(trace) >= 3
    /\ IsUrlopen(trace[1])
    /\ Last(trace[1].url) = "/status"
    /\ IsCompleted(trace[3])
    /\ trace[3].outcome = Return(call.obj)

\* C16: whenever the server-side handler of a client send fails, with an
\* exception of the exception registry or with any other, the client plugin's
\* send does not return: it raises the reconstructed exception when the class
\* is registered, and the codec's unsupported-type failure when it is not.
C16_NothingSwallowedOnSend ==
    (/\ InClientSend
     /\ call.remote.kind = "server"
     /\ call.remote.gw.kind = "raise") =>
        /\ result.kind = "raise"
        /\ IF call.remote.gw.exc.cls \in Range(exceptions)
           THEN result.exc = call.remote.gw.exc
           ELSE result.exc.cls = ClassObj("jsonex", "UnsupportedTypeError")

C16_Witness ==
    /\ InClientSend
    /\ call.remote.kind = "server"
    /\ call.remote.gw.kind = "raise"
    /\ call.remote.gw.exc.cls = ClassObj("exceptions", "RuntimeError")
    /\ result.kind = "raise"
    /\ result.exc.cls = ClassObj("jsonex", "UnsupportedTypeError")
    /\ heap = call.before

\* C18: if the client plugin's send(m) raises (nothing answers, a server
\* error, a decoded remote error, a response without "message"), no field of
\* m has changed and no other object has appeared: the caller's heap is what
\* it was before the call.
C18_FailedSendLeavesMessage ==
    (InClientSend /\ result.kind = "raise") => heap = call.before

C18_Witness ==
    /\ InClientSend
    /\ call.remote.kind = "raw"
    /\ call.remote.response.code = 200
    /\ result = Raise(KeyErrorExc("message"))
    /\ Len(trace) >= 1
    /\ heap = call.before
    /\ "msgid" \in DOMAIN heap["m"].dict

\* an object that is neither an IncomingMessage nor a MessageStatus
Unforwardable(obj) ==
    /\ obj.cls # DataClass("IncomingMessage")
    /\ \A n \in MessageStatusClasses : obj.cls # DataClass(n)

WireDataClasses ==
    {"OutgoingMessage", "IncomingMessage", "OutgoingMessageOptions"}
        \cup MessageStatusClasses
WireExceptions ==
    {"ProviderError", "ConnectionError", "MessageSendError", "RequestError",
     "UnsupportedError", "ServerError", "AuthError", "LimitsError", "CreditError"}

\* C15: the two codec registries are disjoint and duplicate-free: every domain
\* class and every provider exception that may cross the wire is registered
\* under its public class name, in exactly one registry; no name was listed
\* twice in a registry, no name and no class is in both; and every object a
\* plugin operation has decoded and handed back or raised is of a class of
\* exactly one registry (or the codec's unsupported-type failure).
C15_RegistriesDisjoint ==
    /\ DOMAIN classes = WireDataClasses
    /\ DOMAIN exceptions = WireExceptions
    /\ \A n \in DOMAIN classes : classes[n] = DataClass(n)
    /\ \A n \in DOMAIN exceptions : exceptions[n] = ExcClass(n)
    /\ Cardinality(DOMAIN classes) = Len(ClassTuple)
    /\ Cardinality(DOMAIN exceptions) = Len(ExceptionTuple)
    /\ (DOMAIN classes) \cap (DOMAIN exceptions) = {}
    /\ Range(classes) \cap Range(exceptions) = {}
    /\ (InClientSend /\ call.remote.kind = "server" /\ result.kind = "raise") =>
            \/ /\ result.exc.cls \in Range(exceptions)
               /\ result.exc.cls \notin Range(classes)
            \/ result.exc.cls = ClassObj("jsonex", "UnsupportedTypeError")
    /\ (InClientSend /\ result.kind = "return") =>
            /\ heap[call.arg].cls \in Range(classes)
            /\ heap[call.arg].cls \notin Range(exceptions)

C15_Witness ==
    /\ InClientSend
    /\ call.remote.kind = "server"
    /\ result.kind = "raise"
    /\ result.exc.cls = exceptions["LimitsError"]
    /\ "LimitsError" \notin DOMAIN classes
    /\ Len(trace) >= 2

\* --- the server gateway (GatewaySpec)
InEvent == call.fn \in {"Gateway.onReceive", "Gateway.onStatus"}
EventEnded == firing.pc \in {"done", "raised"}
IsForwardPlugin(p) == p.kind = "forward"

\* the names of the server plugins constructed on gw, in construction order
Plugins(gw) ==
    LET ps == SelectSeq(gw.providers, IsForwardPlugin)
    IN  [i \in 1..Len(ps) |-> ps[i].name]

InPluginSend == InServerSend /\ stack # << >>

\* C17: the server plugin's send(message) terminates with the message
\* dispatched by a registered provider other than a forwarding plugin,
\* whatever providers are registered on the gateway: gateway.send never
\* enters the plugin's send again, so the interpreter's stack is never
\* exhausted.
C17_SendLeavesThePlugin ==
    InPluginSend =>
        /\ Len(stack) = 1
        /\ result.kind # "raise"
        /\ result.kind = "return" =>
                ~IsForwardPlugin(Provider(gateway, heap["message"].dict["provider"]))

====
